---------------------------- MODULE Spec2Model ----------------------------
(***************************************************************************)
(* Packaging review workflow: the deterministic risk step                  *)
(* (src/src/risk.py), ExtractedBrief -> ReviewDecision.                    *)
(*                                                                         *)
(* Python strings that the code inspects character by character            *)
(* (age_grade, materials) are sequences of one-character strings, so that  *)
(* lower(), strip() and the `in` substring test are computed the way       *)
(* Python computes them.  Tags, notes and enum values, which the code only *)
(* compares for equality, are plain strings.                               *)
(***************************************************************************)
EXTENDS Naturals, Sequences, FiniteSets, TLC

VARIABLES
    brief,      \* the ExtractedBrief handed to classify_risk
    decision,   \* the ReviewDecision the last call returned
    pc,         \* "ready": a call is about to be made; "done": it has returned
    first,      \* <<>> or <<[brief, decision, call]>>: one earlier call, remembered
    ncalls,     \* number of calls of classify_risk started so far
    \* one run of the workflow (run.py, app.py)
    entry,      \* "cli", "cli_demo" (run.py, --demo) or "app" (app.py)
    rpc,        \* where the run is
    audit,      \* audit.jsonl: the events appended so far
    repair_user,    \* extract_brief: the repair prompt, <<>> until built
    extract_calls,  \* calls of complete() made by extract_brief
    packet_calls,   \* calls of complete() made by generate_packet
    extracted,  \* what extract_brief returned: <<>> (None) or <<brief>>
    draft,      \* generate_packet: the draft after fence stripping
    critique,   \* generate_packet: the critique reply, stripped and uppercased
    packet,     \* what generate_packet returned
    files       \* files written into the run's output folder

classifier_vars == <<brief, decision, pc, first, ncalls>>

run_vars ==
    <<entry, rpc, audit, repair_user, extract_calls, packet_calls, extracted, draft,
      critique, packet, files>>

vars == <<classifier_vars, run_vars>>

---------------------------------------------------------------------------
(* Bounds of the input space.                                              *)
MaxClaims == 2
MaxMaterials == 2
MaxIssues == 2
MaxAgeLen == 3
MaxMatLen == 4

---------------------------------------------------------------------------
(* Python str helpers.                                                     *)

Range(s) == {s[i] : i \in 1..Len(s)}

SeqsUpTo(S, n) == UNION {[1..k -> S] : k \in 0..n}

\* ASCII whitespace removed by str.strip() with no argument.
Whitespace == {" ", "\t", "\n", "\r", "\f"}

UpperToLower ==
    ("A" :> "a") @@ ("B" :> "b") @@ ("C" :> "c") @@ ("D" :> "d") @@
    ("E" :> "e") @@ ("F" :> "f") @@ ("G" :> "g") @@ ("H" :> "h") @@
    ("I" :> "i") @@ ("J" :> "j") @@ ("K" :> "k") @@ ("L" :> "l") @@
    ("M" :> "m") @@ ("N" :> "n") @@ ("O" :> "o") @@ ("P" :> "p") @@
    ("Q" :> "q") @@ ("R" :> "r") @@ ("S" :> "s") @@ ("T" :> "t") @@
    ("U" :> "u") @@ ("V" :> "v") @@ ("W" :> "w") @@ ("X" :> "x") @@
    ("Y" :> "y") @@ ("Z" :> "z")

\* str.lower(), on ASCII text
lower(s) ==
    [i \in 1..Len(s) |-> IF s[i] \in DOMAIN UpperToLower THEN UpperToLower[s[i]] ELSE s[i]]

\* str.strip(): drop leading and trailing whitespace, keep inner whitespace
strip(s) ==
    LET keep == {i \in 1..Len(s) : s[i] \notin Whitespace}
    IN  IF keep = {} THEN <<>>
        ELSE LET lo == CHOOSE i \in keep : \A j \in keep : i <= j
                 hi == CHOOSE i \in keep : \A j \in keep : j <= i
             IN  SubSeq(s, lo, hi)

\* Python `x in ag` on two str values: x occurs in ag as a contiguous run
StrIn(x, ag) ==
    \E off \in 0..Len(ag) :
        /\ off + Len(x) <= Len(ag)
        /\ SubSeq(ag, off + 1, off + Len(x)) = x

---------------------------------------------------------------------------
(* Module constants of risk.py.                                            *)

MATERIAL_PLASTIC ==
    << <<"p","l","a","s","t","i","c">>, <<"p","v","c">>, <<"b","l","i","s","t","e","r">> >>

UNDER_3_INDICATORS ==
    << <<"0">>, <<"1">>, <<"2">>, <<"1","8","m">>, <<"2","4","m">>,
       <<"u","n","d","e","r"," ","3">>,
       <<"u","n","d","e","r"," ","t","h","r","e","e">> >>

LEGAL_CLAIM_TYPES ==
    {"CHEMICAL_SAFETY_CLAIM", "SUSTAINABILITY_CLAIM", "PERFORMANCE_CLAIM", "SAFETY_CLAIM"}

---------------------------------------------------------------------------
(* The four predicates of risk.py.                                         *)
(* `(age_grade or "")` and `(m or "")` only replace None by ""; the fields   *)
(* are str in a validated ExtractedBrief, so the guard is the identity.    *)

\* A plausible slip: the indicator is looked for at the start of the age
\* grade (str.startswith) instead of anywhere in it.
_age_under_3_startswith(age_grade) ==
    LET ag == strip(lower(age_grade))
    IN  \E k \in 1..Len(UNDER_3_INDICATORS) :
            /\ Len(UNDER_3_INDICATORS[k]) <= Len(ag)
            /\ SubSeq(ag, 1, Len(UNDER_3_INDICATORS[k])) = UNDER_3_INDICATORS[k]

_age_under_3(age_grade) ==
    LET ag == strip(lower(age_grade))
    IN  \E k \in 1..Len(UNDER_3_INDICATORS) : StrIn(UNDER_3_INDICATORS[k], ag)

\* A plausible slip: a substring test, as the age check uses, instead of
\* list membership.
_plastic_present_substring(materials) ==
    \E k \in 1..Len(materials) :
        \E x \in Range(MATERIAL_PLASTIC) : StrIn(x, strip(lower(materials[k])))

_plastic_present(materials) ==
    \E k \in 1..Len(materials) :
        strip(lower(materials[k])) \in Range(MATERIAL_PLASTIC)

\* A plausible slip: `return False` indented into the loop, so only the
\* first claim is looked at.
_claims_need_evidence_first_only(claims) ==
    /\ claims # <<>>
    /\ \/ claims[1].normalized_type \in LEGAL_CLAIM_TYPES
       \/ claims[1].severity = "high"

\* A plausible slip: every claim above low severity counts.
_claims_need_evidence_not_low(claims) ==
    \E k \in 1..Len(claims) :
        \/ claims[k].normalized_type \in LEGAL_CLAIM_TYPES
        \/ claims[k].severity # "low"

_claims_need_evidence(claims) ==
    \E k \in 1..Len(claims) :
        \/ claims[k].normalized_type \in LEGAL_CLAIM_TYPES
        \/ claims[k].severity = "high"

_high_severity_issues(issues) ==
    \E k \in 1..Len(issues) : issues[k].severity = "high"

---------------------------------------------------------------------------
(* classify_risk: the locals, the five steps in their fixed order, the     *)
(* derived fields, the returned ReviewDecision.                            *)

\* Routing notes, one per rule.
NoteUnder3 == "Age grade under 3: quality review required."
NoteLicensed == "Licensed product: licensing review required."
NoteClaims == "Marketing claims require legal/evidence review."
NotePlastic == "Plastic/PVC/blister: sustainability review recommended."
NoteIssues == "High-severity issues from brief require attention."

\* A plausible slip: the two lists live at module level (or are a mutable
\* default argument), so a call starts from what the previous call left.
InitLocalsShared ==
    [requires_quality_review |-> FALSE,
     requires_legal_review |-> FALSE,
     requires_licensing_review |-> FALSE,
     requires_sustainability_review |-> FALSE,
     risk_flags |-> decision.risk_flags,
     routing_notes |-> decision.routing_notes]

\* The locals as every call initialises them.
InitLocals ==
    [requires_quality_review |-> FALSE,
     requires_legal_review |-> FALSE,
     requires_licensing_review |-> FALSE,
     requires_sustainability_review |-> FALSE,
     risk_flags |-> <<>>,
     routing_notes |-> <<>>]

AgeStep(b, loc) ==
    IF _age_under_3(b.age_grade)
    THEN [loc EXCEPT !.requires_quality_review = TRUE,
                     !.risk_flags = Append(@, "under_3"),
                     !.routing_notes = Append(@, NoteUnder3)]
    ELSE loc

\* A plausible slip: the licensed rule raises its flag and note but does
\* not set the review boolean.
LicensedStepFlagOnly(b, loc) ==
    IF b.licensed
    THEN [loc EXCEPT !.risk_flags = Append(@, "licensed_brand"),
                     !.routing_notes = Append(@, NoteLicensed)]
    ELSE loc

LicensedStep(b, loc) ==
    IF b.licensed
    THEN [loc EXCEPT !.requires_licensing_review = TRUE,
                     !.risk_flags = Append(@, "licensed_brand"),
                     !.routing_notes = Append(@, NoteLicensed)]
    ELSE loc

ClaimsStep(b, loc) ==
    IF _claims_need_evidence(b.claims)
    THEN [loc EXCEPT !.requires_legal_review = TRUE,
                     !.risk_flags = Append(@, "claims_need_evidence"),
                     !.routing_notes = Append(@, NoteClaims)]
    ELSE loc

PlasticStep(b, loc) ==
    IF _plastic_present(b.materials)
    THEN [loc EXCEPT !.requires_sustainability_review = TRUE,
                     !.risk_flags = Append(@, "plastic_present"),
                     !.routing_notes = Append(@, NotePlastic)]
    ELSE loc

\* A plausible slip: the issues step copies the pattern of the other four
\* and sets a review boolean.
IssuesStepRequiresQuality(b, loc) ==
    IF b.issues # <<>> /\ _high_severity_issues(b.issues)
    THEN [loc EXCEPT !.requires_quality_review = TRUE,
                     !.risk_flags = Append(@, "high_severity_issues"),
                     !.routing_notes = Append(@, NoteIssues)]
    ELSE loc

\* A plausible slip: the informational step raises its flag without a note.
IssuesStepNoNote(b, loc) ==
    IF b.issues # <<>> /\ _high_severity_issues(b.issues)
    THEN [loc EXCEPT !.risk_flags = Append(@, "high_severity_issues")]
    ELSE loc

IssuesStep(b, loc) ==
    IF b.issues # <<>> /\ _high_severity_issues(b.issues)
    THEN [loc EXCEPT !.risk_flags = Append(@, "high_severity_issues"),
                     !.routing_notes = Append(@, NoteIssues)]
    ELSE loc

\* A plausible slip: any flag gates on human approval.
human_approval_required_any_flag(risk_flags) ==
    Len(risk_flags) >= 1

human_approval_required(risk_flags) ==
    \/ "under_3" \in Range(risk_flags)
    \/ "licensed_brand" \in Range(risk_flags)
    \/ "claims_need_evidence" \in Range(risk_flags)

\* A plausible slip: no else branch, so with no flag the level is not one
\* of the three values ReviewDecision accepts.
risk_level_unset_without_flags(risk_flags) ==
    IF "under_3" \in Range(risk_flags) \/ "licensed_brand" \in Range(risk_flags)
    THEN "high"
    ELSE IF Len(risk_flags) >= 1 THEN "medium"
    ELSE "unset"

\* A plausible slip: only the under-3 flag forces "high".
risk_level_under_3_only(risk_flags) ==
    IF "under_3" \in Range(risk_flags) THEN "high"
    ELSE IF Len(risk_flags) >= 1 THEN "medium"
    ELSE "low"

\* A plausible slip: the level is also a count threshold.
risk_level_by_count(risk_flags) ==
    IF \/ "under_3" \in Range(risk_flags)
       \/ "licensed_brand" \in Range(risk_flags)
       \/ Len(risk_flags) >= 3
    THEN "high"
    ELSE IF Len(risk_flags) >= 1 THEN "medium"
    ELSE "low"

risk_level(risk_flags) ==
    LET n_flags == Len(risk_flags)
    IN  IF "under_3" \in Range(risk_flags) \/ "licensed_brand" \in Range(risk_flags)
        THEN "high"
        ELSE IF n_flags >= 1 THEN "medium"
        ELSE "low"

\* A plausible slip: the materials check moved ahead of the claims check.
RunStepsPlasticFirst(b) ==
    IssuesStep(b, ClaimsStep(b, PlasticStep(b, LicensedStep(b, AgeStep(b, InitLocals)))))

\* The five steps, in the order the function body runs them.
RunSteps(b) ==
    IssuesStep(b, PlasticStep(b, ClaimsStep(b, LicensedStep(b, AgeStep(b, InitLocals)))))

classify_risk(b) ==
    LET loc == RunSteps(b)
    IN  [requires_quality_review |-> loc.requires_quality_review,
         requires_legal_review |-> loc.requires_legal_review,
         requires_licensing_review |-> loc.requires_licensing_review,
         requires_sustainability_review |-> loc.requires_sustainability_review,
         risk_flags |-> loc.risk_flags,
         risk_level |-> risk_level(loc.risk_flags),
         routing_notes |-> loc.routing_notes,
         human_approval_required |-> human_approval_required(loc.risk_flags)]

\* No call has returned yet: the ReviewDecision model's field defaults.
NoDecision ==
    [requires_quality_review |-> FALSE,
     requires_legal_review |-> FALSE,
     requires_licensing_review |-> FALSE,
     requires_sustainability_review |-> FALSE,
     risk_flags |-> <<>>,
     risk_level |-> "low",
     routing_notes |-> <<>>,
     human_approval_required |-> FALSE]

---------------------------------------------------------------------------
(* The input space: well-formed ExtractedBrief values.  Only the fields    *)
(* classify_risk reads are kept (age_grade, licensed, claims, materials,   *)
(* issues; of a claim its normalized_type and severity, of an issue its    *)
(* type and severity).                                                     *)

\* age_grade values: the golden cases' and the spec's examples, and others
Age_18m_plus == <<"1", "8", "m", "+">>
Age_24m_plus == <<"2", "4", "m", "+">>
Age_0_3 == <<"0", "-", "3">>
Age_12_plus == <<"1", "2", "+">>
Age_10_plus == <<"1", "0", "+">>
Age_3_plus == <<"3", "+">>
Age_5_plus == <<"5", "+">>
Age_Under_3 == <<"U", "n", "d", "e", "r", " ", "3">>
Age_UNDER_THREE == <<"U", "N", "D", "E", "R", " ", "T", "H", "R", "E", "E">>
Age_padded_3_plus == <<" ", "3", "+", " ">>
Age_6_8 == <<"6", "-", "8">>
Age_empty == <<>>

AgeExamples ==
    {Age_18m_plus, Age_24m_plus, Age_0_3, Age_12_plus,
     Age_10_plus, Age_3_plus, Age_5_plus, Age_Under_3,
     Age_UNDER_THREE, Age_padded_3_plus, Age_6_8, Age_empty}

\* materials entries
Mat_plastic == <<"p", "l", "a", "s", "t", "i", "c">>
Mat_pvc == <<"p", "v", "c">>
Mat_blister == <<"b", "l", "i", "s", "t", "e", "r">>
Mat_cardboard == <<"c", "a", "r", "d", "b", "o", "a", "r", "d">>
Mat_wood == <<"w", "o", "o", "d">>
Mat_Plastic == <<"P", "l", "a", "s", "t", "i", "c">>
Mat_padded_PVC == <<" ", "P", "V", "C", " ">>
Mat_plastic_film == <<"p", "l", "a", "s", "t", "i", "c", " ", "f", "i", "l", "m">>
Mat_BLISTER_newline == <<"B", "L", "I", "S", "T", "E", "R", "\n">>
Mat_empty == <<>>

MaterialExamples ==
    {Mat_plastic, Mat_pvc, Mat_blister, Mat_cardboard,
     Mat_wood, Mat_Plastic, Mat_padded_PVC, Mat_plastic_film,
     Mat_BLISTER_newline, Mat_empty}

\* every short string over a few characters, to try the string tests on
AgeChars == {"0", "2", "3", "+", " "}
MatChars == {"p", "V", "c", " "}

AgeGrades == AgeExamples \cup SeqsUpTo(AgeChars, MaxAgeLen)

MaterialLists ==
    SeqsUpTo(MaterialExamples, MaxMaterials)
        \cup {<<m>> : m \in SeqsUpTo(MatChars, MaxMatLen)}

\* normalized_type is an open string: the five documented categories and
\* one the code does not know
ClaimTypes == LEGAL_CLAIM_TYPES \cup {"OTHER_CLAIM", "WARRANTY_CLAIM"}
Severities == {"low", "medium", "high"}
ClaimObjects == [normalized_type : ClaimTypes, severity : Severities]
IssueTypes == {"MISSING_INFO", "AMBIGUOUS_AGE_GRADE"}
IssueObjects == [type : IssueTypes, severity : Severities]

ClaimLists == SeqsUpTo(ClaimObjects, MaxClaims)
IssueLists == SeqsUpTo(IssueObjects, MaxIssues)

\* two values per field, one that trips the field's check and one that
\* does not: every combination of the five checks
CoreAges == {Age_3_plus, Age_18m_plus}
CoreClaims == {<<>>, <<[normalized_type |-> "SUSTAINABILITY_CLAIM", severity |-> "medium"]>>}
CoreMaterials == {<<Mat_cardboard>>, <<Mat_plastic, Mat_cardboard>>}
CoreIssues == {<<>>, <<[type |-> "AMBIGUOUS_AGE_GRADE", severity |-> "high"]>>}

BriefsOf(ages, claimLists, materialLists, issueLists) ==
    [age_grade : ages, licensed : BOOLEAN, claims : claimLists,
     materials : materialLists, issues : issueLists]

CoreBriefs == BriefsOf(CoreAges, CoreClaims, CoreMaterials, CoreIssues)

Claim(t, sev) == [normalized_type |-> t, severity |-> sev]

\* the three golden cases of the test suite and the demo brief of run.py
GoldenHigh ==
    [age_grade |-> Age_18m_plus, licensed |-> TRUE,
     claims |-> <<Claim("CHEMICAL_SAFETY_CLAIM", "high"), Claim("CHEMICAL_SAFETY_CLAIM", "high")>>,
     materials |-> <<Mat_wood, Mat_plastic, Mat_cardboard>>, issues |-> <<>>]

GoldenLow ==
    [age_grade |-> Age_5_plus, licensed |-> FALSE,
     claims |-> <<Claim("OTHER_CLAIM", "low")>>,
     materials |-> <<Mat_cardboard>>, issues |-> <<>>]

GoldenMedium ==
    [age_grade |-> Age_3_plus, licensed |-> FALSE,
     claims |-> <<Claim("SUSTAINABILITY_CLAIM", "medium"), Claim("SUSTAINABILITY_CLAIM", "medium")>>,
     materials |-> <<Mat_plastic, Mat_cardboard, Mat_blister>>, issues |-> <<>>]

DEMO_BRIEF ==
    [age_grade |-> Age_18m_plus, licensed |-> TRUE,
     claims |-> <<Claim("CHEMICAL_SAFETY_CLAIM", "high"), Claim("CHEMICAL_SAFETY_CLAIM", "high"),
                  Claim("SAFETY_CLAIM", "medium")>>,
     materials |-> <<Mat_wood, Mat_plastic, Mat_cardboard>>,
     issues |-> <<[type |-> "AMBIGUOUS_AGE_GRADE", severity |-> "high"]>>]

GoldenBriefs == {GoldenHigh, GoldenLow, GoldenMedium, DEMO_BRIEF}

\* every list at its default (empty) and an empty age grade
EmptyBrief ==
    [age_grade |-> Age_empty, licensed |-> FALSE, claims |-> <<>>,
     materials |-> <<>>, issues |-> <<>>]

\* one field ranges over all its values while the others range over the
\* core values
Briefs ==
    BriefsOf(AgeGrades, CoreClaims, CoreMaterials, CoreIssues)
        \cup BriefsOf(CoreAges, ClaimLists, CoreMaterials, CoreIssues)
        \cup BriefsOf(CoreAges, CoreClaims, MaterialLists, CoreIssues)
        \cup BriefsOf(CoreAges, CoreClaims, CoreMaterials, IssueLists)
        \cup GoldenBriefs
        \cup {EmptyBrief}

---------------------------------------------------------------------------
(* The state machine.                                                      *)

\* Text that is not there (a local not yet assigned, nothing returned).
NoText == [origin |-> "none", prefix |-> "", suffix |-> "", body |-> ""]

\* classify_risk called on its own: no run of the workflow is going on.
NoRun ==
    /\ entry = "none"
    /\ rpc = "none"
    /\ audit = <<>>
    /\ repair_user = <<>>
    /\ extract_calls = 0
    /\ packet_calls = 0
    /\ extracted = <<>>
    /\ draft = NoText
    /\ critique = <<>>
    /\ packet = NoText
    /\ files = {}

\* What constructing a ReviewDecision validates: four booleans, two lists
\* of str, a risk_level among the three literals, a boolean.
ReviewDecisionValid(d) ==
    /\ d.requires_quality_review \in BOOLEAN
    /\ d.requires_legal_review \in BOOLEAN
    /\ d.requires_licensing_review \in BOOLEAN
    /\ d.requires_sustainability_review \in BOOLEAN
    /\ d.risk_level \in {"low", "medium", "high"}
    /\ d.human_approval_required \in BOOLEAN

\* One call of classify_risk(brief), from entry to return; the call raises
\* (pc = "error") if the ReviewDecision it builds does not validate.
Classify ==
    /\ pc = "ready"
    /\ LET d == classify_risk(brief)
       IN  IF ReviewDecisionValid(d)
           THEN decision' = d /\ pc' = "done"
           ELSE decision' = decision /\ pc' = "error"
    /\ UNCHANGED <<brief, first, ncalls>>
    /\ UNCHANGED run_vars

\* Any well-formed brief, classified once.
Init ==
    /\ brief \in Briefs
    /\ decision = NoDecision
    /\ pc = "ready"
    /\ first = <<>>
    /\ ncalls = 1
    /\ NoRun

Next == Classify

Spec == Init /\ [][Next]_vars

\* Repeated calls, on the same and on other briefs.
MaxCalls == 3

\* Observer: keep one returned (brief, decision) pair to compare later
\* calls with.
Remember ==
    /\ pc = "done"
    /\ first = <<>>
    /\ first' = <<[brief |-> brief, decision |-> decision, call |-> ncalls]>>
    /\ UNCHANGED <<brief, decision, pc, ncalls>>
    /\ UNCHANGED run_vars

\* The caller makes another call; the previous return value stays around.
NextCall ==
    /\ pc = "done"
    /\ ncalls < MaxCalls
    /\ \E b \in CoreBriefs : brief' = b
    /\ pc' = "ready"
    /\ ncalls' = ncalls + 1
    /\ UNCHANGED <<decision, first>>
    /\ UNCHANGED run_vars

InitCalls ==
    /\ brief \in CoreBriefs
    /\ decision = NoDecision
    /\ pc = "ready"
    /\ first = <<>>
    /\ ncalls = 1
    /\ NoRun

NextCalls == Classify \/ Remember \/ NextCall

SpecCalls == InitCalls /\ [][NextCalls]_vars

---------------------------------------------------------------------------
(* The language model's replies to extract_brief, and what llm.py and      *)
(* extract.py make of them.  A reply is kept as its parts: how the text is *)
(* fenced, whether the text inside is JSON, and the JSON value.            *)

\* how a reply wraps its content in ``` fences
Fences == {"none", "json", "plain", "json_unclosed", "plain_unclosed", "stray_backticks"}

\* an item of the "claims" or "issues" array: a JSON object or a bare string
JsonClaim(c) ==
    [json |-> "object", normalized_type |-> c.normalized_type, severity |-> c.severity]
JsonIssue(i) == [json |-> "object", type |-> i.type, severity |-> i.severity]
StringClaim == [json |-> "string", normalized_type |-> "", severity |-> ""]
StringIssue == [json |-> "string", type |-> "", severity |-> ""]

RequiredFields == {"product_name", "age_grade", "licensed"}

\* the JSON object a model writes for brief b
DataOf(b) ==
    [present |-> RequiredFields,
     age_grade |-> b.age_grade,
     licensed |-> b.licensed,
     claims |-> [k \in 1..Len(b.claims) |-> JsonClaim(b.claims[k])],
     materials |-> b.materials,
     issues |-> [k \in 1..Len(b.issues) |-> JsonIssue(b.issues[k])]]

\* the same with the claims and issues written as plain strings
StringlyDataOf(b) ==
    [DataOf(b) EXCEPT !.claims = [k \in 1..Len(b.claims) |-> StringClaim],
                      !.issues = [k \in 1..Len(b.issues) |-> StringIssue]]

\* the same with a severity outside low/medium/high
BadSeverityDataOf(b) ==
    [DataOf(b) EXCEPT !.claims = Append(@, JsonClaim(Claim("SAFETY_CLAIM", "critical")))]

\* the same without the required field "licensed"
MissingFieldDataOf(b) ==
    [DataOf(b) EXCEPT !.present = {"product_name", "age_grade"}]

RunBriefs == GoldenBriefs \cup {EmptyBrief}

NoData == DataOf(EmptyBrief)

ExtractReplies ==
    [fence : Fences, syntax : {"json"},
     data : {DataOf(b) : b \in RunBriefs} \cup {StringlyDataOf(b) : b \in RunBriefs}
               \cup {BadSeverityDataOf(b) : b \in RunBriefs}
               \cup {MissingFieldDataOf(b) : b \in RunBriefs}]
        \cup [fence : Fences, syntax : {"garbage"}, data : {NoData}]
        \cup [fence : {"none"}, syntax : {"empty"}, data : {NoData}]

\* extract_json_from_response: "" when it returns the dict, else the error
\* it raises.  An opening fence without a closing one makes text.index
\* raise; so does a bare JSON text that has ``` somewhere inside.
extract_json_error(reply) ==
    IF reply.fence \in {"json_unclosed", "plain_unclosed", "stray_backticks"}
    THEN "substring not found"
    ELSE IF reply.syntax # "json" THEN "Expecting value"
    ELSE ""

\* _normalize_claims: items that are not dicts become default objects
_normalize_claims(data) ==
    [data EXCEPT
        !.claims = [k \in 1..Len(@) |->
                        IF @[k].json = "object" THEN @[k]
                        ELSE JsonClaim(Claim("OTHER_CLAIM", "medium"))],
        !.issues = [k \in 1..Len(@) |->
                        IF @[k].json = "object" THEN @[k]
                        ELSE JsonIssue([type |-> "OTHER", severity |-> "medium"])]]

\* ExtractedBrief.model_validate: "" when the data validates
model_validate_error(data) ==
    IF ~(RequiredFields \subseteq data.present) THEN "Field required"
    ELSE IF \E k \in 1..Len(data.claims) : data.claims[k].severity \notin Severities
         THEN "Input should be 'low', 'medium' or 'high'"
    ELSE IF \E k \in 1..Len(data.issues) : data.issues[k].severity \notin Severities
         THEN "Input should be 'low', 'medium' or 'high'"
    ELSE ""

\* the ExtractedBrief built from validated data
BriefFrom(data) ==
    [age_grade |-> data.age_grade,
     licensed |-> data.licensed,
     claims |-> [k \in 1..Len(data.claims) |->
                    Claim(data.claims[k].normalized_type, data.claims[k].severity)],
     materials |-> data.materials,
     issues |-> [k \in 1..Len(data.issues) |->
                    [type |-> data.issues[k].type, severity |-> data.issues[k].severity]]]

\* The body of each try block of extract_brief: parse, normalize, validate.
\* error is str(e) of the exception caught, "" if none.
TryExtract(reply) ==
    LET e1 == extract_json_error(reply)
        data == _normalize_claims(reply.data)
        e2 == model_validate_error(data)
    IN  IF e1 # "" THEN [ok |-> FALSE, error |-> e1, brief |-> EmptyBrief]
        ELSE IF e2 # "" THEN [ok |-> FALSE, error |-> e2, brief |-> EmptyBrief]
        ELSE [ok |-> TRUE, error |-> "", brief |-> BriefFrom(data)]

---------------------------------------------------------------------------
(* The audit log.                                                          *)

\* log_event: one record appended; `by` is the function that made the call,
\* `info` the part of the payload the properties read.
Event(event_type, info, by) == [event_type |-> event_type, info |-> info, by |-> by]

log_event(log, event_type, info, by) == Append(log, Event(event_type, info, by))

---------------------------------------------------------------------------
(* extract_brief.  Callers always pass an audit path, so every             *)
(* `if audit_path:` is taken.                                              *)

\* A plausible slip: the repair is a retry loop that goes on until a reply
\* validates.
ExtractAfterFailureRetry(attempt) == "extract_repair"

\* Where extract_brief goes when the reply of the attempt-th call failed:
\* the first failure leads to the repair call, the second is final.
ExtractAfterFailure(attempt) ==
    IF attempt = 1 THEN "extract_repair" ELSE "extract_returned"

\* First call and its try block.
ExtractFirst ==
    /\ rpc = "extract"
    /\ \E reply \in ExtractReplies :
          LET r == TryExtract(reply)
          IN  /\ extract_calls' = extract_calls + 1
              /\ IF r.ok
                 THEN /\ audit' = log_event(audit, "extraction_ok", "", "extract_brief")
                      /\ extracted' = <<r.brief>>
                      /\ repair_user' = <<>>
                      /\ rpc' = "extract_returned"
                 ELSE /\ audit' = log_event(audit, "extraction_repair_attempt", r.error,
                                            "extract_brief")
                      /\ extracted' = extracted
                      /\ repair_user' = <<[error |-> r.error, previous |-> reply]>>
                      /\ rpc' = ExtractAfterFailure(extract_calls + 1)
    /\ UNCHANGED <<classifier_vars, entry, packet_calls, draft, critique, packet, files>>

\* Repair call, with the error and the previous output in the prompt, and
\* its try block.
ExtractRepair ==
    /\ rpc = "extract_repair"
    /\ \E reply \in ExtractReplies :
          LET r == TryExtract(reply)
          IN  /\ extract_calls' = extract_calls + 1
              /\ IF r.ok
                 THEN /\ audit' = log_event(audit, "extraction_repaired", "", "extract_brief")
                      /\ extracted' = <<r.brief>>
                      /\ repair_user' = <<>>
                      /\ rpc' = "extract_returned"
                 ELSE /\ audit' = log_event(audit, "failure", "extraction", "extract_brief")
                      /\ extracted' = <<>>
                      /\ repair_user' = <<>>
                      /\ rpc' = ExtractAfterFailure(extract_calls + 1)
    /\ UNCHANGED <<classifier_vars, entry, packet_calls, draft, critique, packet, files>>

\* complete() raises (no API key, network): neither call is inside a try
\* block that catches it, so the exception leaves extract_brief.
ExtractCallRaises ==
    /\ rpc \in {"extract", "extract_repair"}
    /\ extract_calls' = extract_calls + 1
    /\ rpc' = "crashed"
    /\ UNCHANGED <<classifier_vars, entry, audit, repair_user, packet_calls, extracted, draft,
                   critique, packet, files>>

---------------------------------------------------------------------------
(* generate_packet.                                                        *)

LowerToUpper ==
    ("a" :> "A") @@ ("b" :> "B") @@ ("c" :> "C") @@ ("d" :> "D") @@
    ("e" :> "E") @@ ("f" :> "F") @@ ("g" :> "G") @@ ("h" :> "H") @@
    ("i" :> "I") @@ ("j" :> "J") @@ ("k" :> "K") @@ ("l" :> "L") @@
    ("m" :> "M") @@ ("n" :> "N") @@ ("o" :> "O") @@ ("p" :> "P") @@
    ("q" :> "Q") @@ ("r" :> "R") @@ ("s" :> "S") @@ ("t" :> "T") @@
    ("u" :> "U") @@ ("v" :> "V") @@ ("w" :> "W") @@ ("x" :> "X") @@
    ("y" :> "Y") @@ ("z" :> "Z")

\* str.upper(), on ASCII text
upper(s) ==
    [i \in 1..Len(s) |-> IF s[i] \in DOMAIN LowerToUpper THEN LowerToUpper[s[i]] ELSE s[i]]

\* critique replies: the approval the prompt asks for, lists of fixes in the
\* prompt's wording and in other wordings, an empty reply
Critique_OK == <<"O", "K">>
Critique_ok_lowercase == <<"o", "k">>
Critique_OK_padded == <<" ", "O", "K", "\n">>
Critique_add_section == <<"A", "d", "d", " ", "I", "s", "s", "u", "e", "s", " ", "s", "e", "c", "t", "i", "o", "n">>
Critique_remove_claim == <<"R", "e", "m", "o", "v", "e", " ", "i", "n", "v", "e", "n", "t", "e", "d", " ", "c", "l", "a", "i", "m", " ", "X">>
Critique_rephrase == <<"R", "e", "p", "h", "r", "a", "s", "e", " ", "a", "s", " ", "s", "u", "g", "g", "e", "s", "t", "i", "o", "n">>
Critique_OK_then_add == <<"O", "K", ".", " ", "A", "d", "d", " ", "I", "s", "s", "u", "e", "s", " ", "s", "e", "c", "t", "i", "o", "n">>
Critique_broken_table == <<"F", "i", "x", " ", "t", "h", "e", " ", "b", "r", "o", "k", "e", "n", " ", "t", "a", "b", "l", "e">>
Critique_looks_ok_but == <<"L", "o", "o", "k", "s", " ", "o", "k", " ", "b", "u", "t", " ", "s", "t", "a", "t", "e", " ", "t", "h", "e", " ", "r", "i", "s", "k", " ", "l", "e", "v", "e", "l">>
Critique_checklist_missing == <<"C", "h", "e", "c", "k", "l", "i", "s", "t", " ", "i", "s", " ", "m", "i", "s", "s", "i", "n", "g">>
Critique_empty == <<>>

CritiqueReplies ==
    {Critique_OK, Critique_ok_lowercase, Critique_OK_padded,
     Critique_add_section, Critique_remove_claim, Critique_rephrase,
     Critique_OK_then_add, Critique_broken_table, Critique_looks_ok_but,
     Critique_checklist_missing, Critique_empty}

\* a Markdown reply: how it opens ("" for no fence, else a ``` line with or
\* without a language), the text, how it closes ("" or a ``` line)
PacketTexts ==
    [origin : {"model"}, prefix : {"", "fence markdown", "fence md", "fence"},
     suffix : {"", "fence"}, body : {"packet text A", "packet text B"}]

\* The fence stripping applied to the draft and to the revision: the
\* closing fence is removed only when an opening fence was.
StripFence(text) ==
    IF text.prefix # "" THEN [text EXCEPT !.prefix = "", !.suffix = ""] ELSE text

_template_packet(b, d) ==
    [origin |-> "template", prefix |-> "", suffix |-> "", body |-> "template"]

\* The test on the stripped, uppercased critique that ends generate_packet
\* with the draft.
CritiqueApproves(c) ==
    /\ StrIn(<<"O", "K">>, c)
    /\ ~StrIn(<<"A", "D", "D", " ">>, c)
    /\ ~StrIn(<<"R", "E", "M", "O", "V", "E", " ">>, c)
    /\ ~StrIn(<<"R", "E", "P", "H", "R", "A", "S", "E", " ">>, c)

\* A plausible slip: the revision is sent back to the critique step.
PacketAfterReviseLoop == "critique"

\* Where generate_packet goes after the revision: it returns it.
PacketAfterRevise == "packet_returned"

\* Demo mode: the template, no model call, no event.
PacketTemplate ==
    /\ rpc = "packet"
    /\ entry = "cli_demo"
    /\ packet' = _template_packet(brief, decision)
    /\ rpc' = "packet_returned"
    /\ UNCHANGED <<classifier_vars, entry, audit, repair_user, extract_calls, packet_calls,
                   extracted, draft, critique, files>>

\* Draft call and fence stripping.
PacketDraft ==
    /\ rpc = "packet"
    /\ entry # "cli_demo"
    /\ \E text \in PacketTexts : draft' = [StripFence(text) EXCEPT !.origin = "draft"]
    /\ packet_calls' = packet_calls + 1
    /\ rpc' = "critique"
    /\ UNCHANGED <<classifier_vars, entry, audit, repair_user, extract_calls, extracted,
                   critique, packet, files>>

\* Critique call and the decision taken on its reply.
PacketCritique ==
    /\ rpc = "critique"
    /\ \E reply \in CritiqueReplies :
          LET c == upper(strip(reply))
          IN  /\ critique' = c
              /\ IF CritiqueApproves(c)
                 THEN /\ audit' = log_event(audit, "packet_generated", "critique ok",
                                            "generate_packet")
                      /\ packet' = draft
                      /\ rpc' = "packet_returned"
                 ELSE /\ audit' = audit
                      /\ packet' = packet
                      /\ rpc' = "revise"
    /\ packet_calls' = packet_calls + 1
    /\ UNCHANGED <<classifier_vars, entry, repair_user, extract_calls, extracted, draft, files>>

\* Revision call, fence stripping, event, return.
PacketRevise ==
    /\ rpc = "revise"
    /\ \E text \in PacketTexts : packet' = [StripFence(text) EXCEPT !.origin = "revision"]
    /\ packet_calls' = packet_calls + 1
    /\ audit' = log_event(audit, "packet_revised", "after critique", "generate_packet")
    /\ rpc' = PacketAfterRevise
    /\ UNCHANGED <<classifier_vars, entry, repair_user, extract_calls, extracted, draft,
                   critique, files>>

\* complete() raises in one of the three calls: generate_packet catches
\* nothing.
PacketCallRaises ==
    /\ \/ rpc = "packet" /\ entry # "cli_demo"
       \/ rpc \in {"critique", "revise"}
    /\ packet_calls' = packet_calls + 1
    /\ rpc' = "crashed"
    /\ UNCHANGED <<classifier_vars, entry, audit, repair_user, extract_calls, extracted,
                   draft, critique, packet, files>>

---------------------------------------------------------------------------
(* The orchestrator: run() of run.py and the Run button of app.py.         *)

\* A plausible slip: the None check after extract_brief is missing.
RunAfterExtractUnchecked(x) == "classify"

\* `if brief is None: return` (run.py), `if not brief: st.stop()` (app.py)
RunAfterExtract(x) == IF x = <<>> THEN "stopped" ELSE "classify"

\* A plausible slip: the event is written from a default ReviewDecision
\* instead of the one classify_risk returned.
RiskLevelLoggedDefault(d) == NoDecision.risk_level

\* the risk_level of the risk_classified payload
RiskLevelLogged(d) == d.risk_level

\* input_received, and in demo mode the built-in brief and its event
RunStart ==
    /\ rpc = "start"
    /\ IF entry = "cli_demo"
       THEN /\ brief' = DEMO_BRIEF
            /\ audit' = log_event(log_event(audit, "input_received", "", "run"),
                                  "extraction_ok", "demo", "run")
            /\ rpc' = "classify"
       ELSE /\ brief' = brief
            /\ audit' = log_event(audit, "input_received", "", "run")
            /\ rpc' = "extract"
    /\ UNCHANGED <<decision, pc, first, ncalls, entry, repair_user, extract_calls,
                   packet_calls, extracted, draft, critique, packet, files>>

\* extract_brief has returned: stop on None, else go on with the brief
RunExtracted ==
    /\ rpc = "extract_returned"
    /\ rpc' = RunAfterExtract(extracted)
    /\ brief' = IF extracted = <<>> THEN brief ELSE extracted[1]
    /\ UNCHANGED <<decision, pc, first, ncalls, entry, audit, repair_user, extract_calls,
                   packet_calls, extracted, draft, critique, packet, files>>

\* decision = classify_risk(brief)
RunClassify ==
    /\ rpc = "classify"
    /\ pc = "ready"
    /\ ncalls' = ncalls + 1
    /\ LET d == classify_risk(brief)
       IN  IF extracted = <<>> /\ entry # "cli_demo"
           THEN decision' = decision /\ pc' = "error" /\ rpc' = "crashed"
           ELSE IF ReviewDecisionValid(d)
           THEN decision' = d /\ pc' = "done" /\ rpc' = "log_risk"
           ELSE decision' = decision /\ pc' = "error" /\ rpc' = "crashed"
    /\ UNCHANGED <<brief, first, entry, audit, repair_user, extract_calls, packet_calls,
                   extracted, draft, critique, packet, files>>

\* log_event(..., "risk_classified", {"risk_level": ...})
RunLogRisk ==
    /\ rpc = "log_risk"
    /\ audit' = log_event(audit, "risk_classified", RiskLevelLogged(decision), "run")
    /\ rpc' = "packet"
    /\ UNCHANGED <<classifier_vars, entry, repair_user, extract_calls, packet_calls,
                   extracted, draft, critique, packet, files>>

\* generate_packet has returned: log_event(..., "packet_generated", {})
RunLogPacket ==
    /\ rpc = "packet_returned"
    /\ audit' = log_event(audit, "packet_generated", "", "run")
    /\ rpc' = "write"
    /\ UNCHANGED <<classifier_vars, entry, repair_user, extract_calls, packet_calls,
                   extracted, draft, critique, packet, files>>

\* the three outputs and outputs_written
RunWriteOutputs ==
    /\ rpc = "write"
    /\ files' = {"extracted.json", "decision.json", "review_packet.md"}
    /\ audit' = log_event(audit, "outputs_written", "", "run")
    /\ rpc' = "finished"
    /\ UNCHANGED <<classifier_vars, entry, repair_user, extract_calls, packet_calls,
                   extracted, draft, critique, packet>>

\* A run is started from the command line, with or without --demo, or
\* from the app; the output folder holds only the audit file.
InitRun ==
    /\ entry \in {"cli", "cli_demo", "app"}
    /\ rpc = "start"
    /\ brief = EmptyBrief
    /\ decision = NoDecision
    /\ pc = "ready"
    /\ first = <<>>
    /\ ncalls = 0
    /\ audit = <<>>
    /\ repair_user = <<>>
    /\ extract_calls = 0
    /\ packet_calls = 0
    /\ extracted = <<>>
    /\ draft = NoText
    /\ critique = <<>>
    /\ packet = NoText
    /\ files = {}

NextRun ==
    \/ RunStart
    \/ ExtractFirst
    \/ ExtractRepair
    \/ ExtractCallRaises
    \/ RunExtracted
    \/ RunClassify
    \/ RunLogRisk
    \/ PacketTemplate
    \/ PacketDraft
    \/ PacketCritique
    \/ PacketRevise
    \/ PacketCallRaises
    \/ RunLogPacket
    \/ RunWriteOutputs

SpecRun == InitRun /\ [][NextRun]_vars

---------------------------------------------------------------------------
(* Vocabulary of the properties, stated on the brief and on the returned   *)
(* decision, without the operators of classify_risk.                       *)

Returned == pc = "done"
Flags == Range(decision.risk_flags)

RECURSIVE TrimLeft(_)
TrimLeft(s) == IF s # <<>> /\ Head(s) \in Whitespace THEN TrimLeft(Tail(s)) ELSE s

RECURSIVE TrimRight(_)
TrimRight(s) ==
    IF s # <<>> /\ s[Len(s)] \in Whitespace THEN TrimRight(SubSeq(s, 1, Len(s) - 1)) ELSE s

\* lowercased and trimmed
Normalized(s) == TrimRight(TrimLeft(lower(s)))

\* some run of characters of the normalized age grade is an indicator
AgeHasIndicator(age) ==
    LET ag == Normalized(age)
    IN  \E i, j \in 1..Len(ag) : i <= j /\ SubSeq(ag, i, j) \in Range(UNDER_3_INDICATORS)

ClaimNeedsEvidence(c) ==
    \/ c.normalized_type \in {"CHEMICAL_SAFETY_CLAIM", "SUSTAINABILITY_CLAIM",
                              "PERFORMANCE_CLAIM", "SAFETY_CLAIM"}
    \/ c.severity = "high"

SomeClaimNeedsEvidence(b) == \E c \in Range(b.claims) : ClaimNeedsEvidence(c)

IsPlasticFamily(m) == Normalized(m) \in {Mat_plastic, Mat_pvc, Mat_blister}

SomePlastic(b) == \E m \in Range(b.materials) : IsPlasticFamily(m)

SomeHighIssue(b) == \E i \in Range(b.issues) : i.severity = "high"

NoCheckMatches(b) ==
    /\ ~AgeHasIndicator(b.age_grade)
    /\ ~b.licensed
    /\ ~SomeClaimNeedsEvidence(b)
    /\ ~SomePlastic(b)
    /\ ~SomeHighIssue(b)

---------------------------------------------------------------------------
(* Properties.                                                             *)

\* C1: human_approval_required is true iff risk_flags holds at least one of
\* under_3, licensed_brand, claims_need_evidence; a decision flagged only
\* with plastic_present and/or high_severity_issues does not require human
\* approval.
C1_HumanApprovalGating ==
    Returned =>
        /\ decision.human_approval_required
              <=> (Flags \cap {"under_3", "licensed_brand", "claims_need_evidence"} # {})
        /\ (Flags # {} /\ Flags \subseteq {"plastic_present", "high_severity_issues"})
              => ~decision.human_approval_required

C1_Witness ==
    /\ Returned
    /\ Flags = {"plastic_present", "high_severity_issues"}
    /\ ~decision.human_approval_required

\* C2: when the under-3 age check matches or the brief is licensed, the
\* risk level is "high", whatever the other fields and flags are.
C2_HighRiskForced ==
    (Returned /\ (AgeHasIndicator(brief.age_grade) \/ brief.licensed))
        => decision.risk_level = "high"

C2_Witness ==
    /\ Returned
    /\ brief.licensed
    /\ ~AgeHasIndicator(brief.age_grade)
    /\ decision.risk_flags = <<"licensed_brand">>
    /\ decision.risk_level = "high"

\* C3: the risk level is "medium" exactly when some flag is raised and
\* neither under_3 nor licensed_brand is; the three remaining flags raised
\* together still give "medium".
C3_MediumRisk ==
    Returned =>
        /\ decision.risk_level = "medium"
              <=> (Flags # {} /\ "under_3" \notin Flags /\ "licensed_brand" \notin Flags)
        /\ Flags = {"claims_need_evidence", "plastic_present", "high_severity_issues"}
              => decision.risk_level = "medium"

C3_Witness ==
    /\ Returned
    /\ decision.risk_flags = <<"claims_need_evidence", "plastic_present", "high_severity_issues">>
    /\ decision.risk_level = "medium"

\* C4: a brief on which none of the five checks matches is classified low,
\* with the four review booleans and human_approval_required false and
\* risk_flags and routing_notes empty; and the level is "low" only when
\* risk_flags is empty.
C4_NoFlagsLowRisk ==
    Returned =>
        /\ NoCheckMatches(brief) =>
              /\ decision.risk_level = "low"
              /\ ~decision.requires_quality_review
              /\ ~decision.requires_legal_review
              /\ ~decision.requires_licensing_review
              /\ ~decision.requires_sustainability_review
              /\ ~decision.human_approval_required
              /\ decision.risk_flags = <<>>
              /\ decision.routing_notes = <<>>
        /\ decision.risk_level = "low" => decision.risk_flags = <<>>

C4_Witness ==
    /\ Returned
    /\ NoCheckMatches(brief)
    /\ brief.claims # <<>>
    /\ brief.materials # <<>>
    /\ decision.risk_level = "low"
    /\ decision.risk_flags = <<>>

\* C5: a call on a brief returns the decision that an earlier call on the
\* same brief returned, whatever calls were made in between: nothing is
\* carried from one call to the next.
C5_Deterministic ==
    (Returned /\ first # <<>> /\ first[1].brief = brief)
        => decision = first[1].decision

C5_Witness ==
    /\ Returned
    /\ first # <<>>
    /\ first[1].call = 1
    /\ ncalls = MaxCalls
    /\ first[1].brief = brief
    /\ decision = first[1].decision
    /\ Len(decision.risk_flags) >= 2

\* The evaluation order of the five rules, and each rule's note.
FlagOrder ==
    <<"under_3", "licensed_brand", "claims_need_evidence", "plastic_present",
      "high_severity_issues">>

PositionOf(tag) == CHOOSE k \in 1..Len(FlagOrder) : FlagOrder[k] = tag

NoteOf(tag) ==
    CASE tag = "under_3" -> NoteUnder3
      [] tag = "licensed_brand" -> NoteLicensed
      [] tag = "claims_need_evidence" -> NoteClaims
      [] tag = "plastic_present" -> NotePlastic
      [] tag = "high_severity_issues" -> NoteIssues

\* C6: risk_flags holds only the five known tags, none of them twice, in
\* the fixed evaluation order (it is a subsequence of that order).
C6_FlagsOrderedNoDuplicates ==
    Returned =>
        /\ Flags \subseteq Range(FlagOrder)
        /\ \A i, j \in 1..Len(decision.risk_flags) :
              i < j => PositionOf(decision.risk_flags[i]) < PositionOf(decision.risk_flags[j])

C6_Witness ==
    /\ Returned
    /\ decision.risk_flags = FlagOrder

\* C7: routing_notes is as long as risk_flags, and its i-th note is the
\* note of the rule that raised the i-th flag.
C7_NotesMatchFlags ==
    Returned =>
        /\ Len(decision.routing_notes) = Len(decision.risk_flags)
        /\ Flags \subseteq Range(FlagOrder)
        /\ \A i \in 1..Len(decision.risk_flags) :
              decision.routing_notes[i] = NoteOf(decision.risk_flags[i])

C7_Witness ==
    /\ Returned
    /\ decision.risk_flags = <<"licensed_brand", "plastic_present", "high_severity_issues">>
    /\ decision.routing_notes = <<NoteLicensed, NotePlastic, NoteIssues>>

\* C8: under_3 is raised iff the age grade, lowercased and trimmed, contains
\* one of the indicators as a substring: "0-3", "12+", "10+" and every age
\* grade with a digit 0, 1 or 2 anywhere match; "3+" and "5+" do not.
C8_Under3SubstringRule ==
    Returned =>
        /\ "under_3" \in Flags <=> AgeHasIndicator(brief.age_grade)
        /\ brief.age_grade \in {Age_0_3, Age_12_plus, Age_10_plus} => "under_3" \in Flags
        /\ Range(brief.age_grade) \cap {"0", "1", "2"} # {} => "under_3" \in Flags
        /\ brief.age_grade \in {Age_3_plus, Age_5_plus} => "under_3" \notin Flags

C8_Witness ==
    /\ Returned
    /\ brief.age_grade = Age_12_plus
    /\ "under_3" \in Flags
    /\ decision.requires_quality_review

\* C9: claims_need_evidence is raised, and legal review required, iff some
\* claim has one of the four evidence-needing types or severity high; a
\* claim of another type counts only with severity high; no claims, no flag.
C9_ClaimsNeedEvidenceRule ==
    Returned =>
        /\ "claims_need_evidence" \in Flags <=> SomeClaimNeedsEvidence(brief)
        /\ decision.requires_legal_review <=> SomeClaimNeedsEvidence(brief)
        /\ (\A c \in Range(brief.claims) : c.normalized_type \in {"OTHER_CLAIM", "WARRANTY_CLAIM"})
              => ("claims_need_evidence" \in Flags
                     <=> \E c \in Range(brief.claims) : c.severity = "high")
        /\ brief.claims = <<>> => "claims_need_evidence" \notin Flags

C9_Witness ==
    /\ Returned
    /\ brief.claims = <<Claim("OTHER_CLAIM", "low"), Claim("WARRANTY_CLAIM", "high")>>
    /\ "claims_need_evidence" \in Flags
    /\ decision.requires_legal_review

\* C10: plastic_present is raised, and sustainability review required, iff
\* some material, lowercased and trimmed, is exactly "plastic", "pvc" or
\* "blister"; "plastic film" does not count, " PVC " does.
C10_PlasticExactMatchRule ==
    Returned =>
        /\ "plastic_present" \in Flags <=> SomePlastic(brief)
        /\ decision.requires_sustainability_review <=> SomePlastic(brief)
        /\ brief.materials = <<Mat_plastic_film>> => "plastic_present" \notin Flags
        /\ Mat_padded_PVC \in Range(brief.materials) => "plastic_present" \in Flags

C10_Witness ==
    /\ Returned
    /\ brief.materials = <<Mat_cardboard, Mat_padded_PVC>>
    /\ "plastic_present" \in Flags
    /\ decision.requires_sustainability_review

\* C11: high_severity_issues is raised iff some issue has severity high,
\* and raising it sets no review boolean: the four booleans are what the
\* other four checks make them; a brief on which only this check matches
\* gets the single flag, no review boolean, level medium and no human
\* approval.
C11_IssuesStepInformational ==
    Returned =>
        /\ "high_severity_issues" \in Flags <=> SomeHighIssue(brief)
        /\ decision.requires_quality_review <=> AgeHasIndicator(brief.age_grade)
        /\ decision.requires_licensing_review <=> brief.licensed
        /\ decision.requires_legal_review <=> SomeClaimNeedsEvidence(brief)
        /\ decision.requires_sustainability_review <=> SomePlastic(brief)
        /\ (/\ SomeHighIssue(brief)
            /\ ~AgeHasIndicator(brief.age_grade)
            /\ ~brief.licensed
            /\ ~SomeClaimNeedsEvidence(brief)
            /\ ~SomePlastic(brief))
              => /\ ~decision.requires_quality_review
                 /\ ~decision.requires_legal_review
                 /\ ~decision.requires_licensing_review
                 /\ ~decision.requires_sustainability_review
                 /\ decision.risk_flags = <<"high_severity_issues">>
                 /\ decision.risk_level = "medium"
                 /\ ~decision.human_approval_required

C11_Witness ==
    /\ Returned
    /\ Len(brief.issues) = 2
    /\ brief.issues[1].severity = "low"
    /\ brief.issues[2].severity = "high"
    /\ decision.risk_flags = <<"high_severity_issues">>
    /\ ~decision.requires_quality_review
    /\ decision.risk_level = "medium"

\* C12: classify_risk is total: no call on a well-formed brief ends in an
\* error, every call that returns gives a complete, valid ReviewDecision,
\* and an empty field only leaves out the flag of its check.
C12_Total ==
    /\ pc # "error"
    /\ Returned =>
          /\ DOMAIN decision =
                {"requires_quality_review", "requires_legal_review",
                 "requires_licensing_review", "requires_sustainability_review",
                 "risk_flags", "risk_level", "routing_notes", "human_approval_required"}
          /\ decision.risk_level \in {"low", "medium", "high"}
          /\ brief.age_grade = <<>> => "under_3" \notin Flags
          /\ brief.claims = <<>> => "claims_need_evidence" \notin Flags
          /\ brief.materials = <<>> => "plastic_present" \notin Flags
          /\ brief.issues = <<>> => "high_severity_issues" \notin Flags

C12_Witness ==
    /\ Returned
    /\ brief.age_grade = <<>>
    /\ brief.claims = <<>>
    /\ brief.materials = <<>>
    /\ brief.issues = <<>>
    /\ decision.risk_level = "low"
    /\ decision.risk_flags = <<>>

\* C18: each review boolean agrees with its flag: quality with under_3,
\* licensing with licensed_brand (and with brief.licensed), legal with
\* claims_need_evidence, sustainability with plastic_present.
C18_BooleansAgreeWithFlags ==
    Returned =>
        /\ decision.requires_quality_review <=> "under_3" \in Flags
        /\ decision.requires_licensing_review <=> "licensed_brand" \in Flags
        /\ "licensed_brand" \in Flags <=> brief.licensed
        /\ decision.requires_legal_review <=> "claims_need_evidence" \in Flags
        /\ decision.requires_sustainability_review <=> "plastic_present" \in Flags

C18_Witness ==
    /\ Returned
    /\ decision.risk_flags = <<"licensed_brand", "plastic_present">>
    /\ decision.requires_licensing_review
    /\ decision.requires_sustainability_review
    /\ ~decision.requires_quality_review
    /\ ~decision.requires_legal_review

---------------------------------------------------------------------------
(* Properties of a run.                                                    *)

LastEvent == audit[Len(audit)]

\* the event types appended by the function `by`, in order
EventsBy(by) ==
    LET F[i \in 0..Len(audit)] ==
            IF i = 0 THEN <<>>
            ELSE IF audit[i].by = by THEN Append(F[i - 1], audit[i].event_type)
            ELSE F[i - 1]
    IN  F[Len(audit)]

ExtractionFailed == rpc \in {"extract_returned", "stopped"} /\ extracted = <<>>

\* C13: extract_brief makes exactly one repair retry.  A first reply that
\* parses and validates ends it after one call with the brief; a first
\* reply that does not is followed by exactly one more call, whose prompt
\* holds the error message and the previous output; a second reply that
\* fails too is logged as "failure" with stage "extraction" and None is
\* returned; there is never a third call.
C13_Step ==
    /\ extract_calls' <= 2
    /\ (rpc = "extract" /\ rpc' # "crashed") =>
          /\ extract_calls' = 1
          /\ \/ /\ rpc' = "extract_returned"
                /\ extracted' # <<>>
                /\ audit' = Append(audit, Event("extraction_ok", "", "extract_brief"))
             \/ /\ rpc' = "extract_repair"
                /\ extracted' = <<>>
                /\ Len(repair_user') = 1
                /\ repair_user'[1].previous \in ExtractReplies
                /\ ~TryExtract(repair_user'[1].previous).ok
                /\ repair_user'[1].error = TryExtract(repair_user'[1].previous).error
                /\ repair_user'[1].error # ""
    /\ (rpc = "extract_repair" /\ rpc' # "crashed") =>
          /\ extract_calls' = 2
          /\ rpc' = "extract_returned"
          /\ \/ /\ extracted' # <<>>
                /\ audit' = Append(audit, Event("extraction_repaired", "", "extract_brief"))
             \/ /\ extracted' = <<>>
                /\ audit' = Append(audit, Event("failure", "extraction", "extract_brief"))
    /\ (rpc' = "extract_returned" /\ rpc # rpc') =>
          \/ extract_calls' = 1 /\ EventsBy("extract_brief")' = <<"extraction_ok">>
          \/ extract_calls' = 2 /\ EventsBy("extract_brief")' \in
                {<<"extraction_repair_attempt", "extraction_repaired">>,
                 <<"extraction_repair_attempt", "failure">>}

C13_OneRepairRetry == [][C13_Step]_vars

C13_Witness ==
    /\ rpc = "extract_returned"
    /\ extract_calls = 2
    /\ extracted = <<>>
    /\ LastEvent = Event("failure", "extraction", "extract_brief")

\* positions of the events of the given types in the audit file
PositionsOf(types) == {i \in 1..Len(audit) : audit[i].event_type \in types}

ExtractionFailedTerminally ==
    \E i \in 1..Len(audit) : audit[i] = Event("failure", "extraction", "extract_brief")

\* C14: a terminal extraction failure ends the run with no decision and no
\* packet: once extract_brief has returned no brief, classify_risk and
\* generate_packet are never called, no risk_classified, packet_generated,
\* packet_revised or outputs_written event is logged, and none of the three
\* output files is written.
C14_FailureEndsRun ==
    ExtractionFailedTerminally =>
        /\ extracted = <<>>
        /\ rpc \in {"extract_returned", "stopped"}
        /\ ncalls = 0
        /\ pc = "ready"
        /\ decision = NoDecision
        /\ packet_calls = 0
        /\ draft = NoText
        /\ packet = NoText
        /\ PositionsOf({"risk_classified", "packet_generated", "packet_revised",
                        "outputs_written"}) = {}
        /\ files = {}

C14_Witness ==
    /\ rpc = "stopped"
    /\ entry = "app"
    /\ ExtractionFailedTerminally
    /\ extract_calls = 2
    /\ files = {}

\* C15: generate_packet with the model makes one draft call, one critique
\* call and at most one revision call, three calls at most, and returns the
\* revised text without a second critique, whatever the replies are.
C15_Step ==
    /\ packet_calls' <= 3
    /\ (rpc = "packet" /\ entry # "cli_demo" /\ rpc' # "crashed") =>
          packet_calls' = 1 /\ rpc' = "critique"
    /\ (rpc = "critique" /\ rpc' # "crashed") =>
          packet_calls' = 2 /\ rpc' \in {"packet_returned", "revise"}
    /\ (rpc = "revise" /\ rpc' # "crashed") =>
          /\ packet_calls' = 3
          /\ rpc' = "packet_returned"
          /\ packet'.origin = "revision"
          /\ critique' = critique
    /\ (rpc' = "packet_returned" /\ rpc # rpc' /\ entry # "cli_demo") =>
          \/ packet_calls' = 2 /\ EventsBy("generate_packet")' = <<"packet_generated">>
          \/ packet_calls' = 3 /\ EventsBy("generate_packet")' = <<"packet_revised">>

C15_AtMostOneRevision == [][C15_Step]_vars

C15_Witness ==
    /\ rpc = "packet_returned"
    /\ packet_calls = 3
    /\ packet.origin = "revision"
    /\ packet.suffix = "fence"
    /\ LastEvent.event_type = "packet_revised"

ExtractionSucceeded == {"extraction_ok", "extraction_repaired"}

\* C16: in a run that obtains a brief the orchestrator appends exactly one
\* risk_classified event, whose risk_level is that of the decision it
\* writes; the event follows the extraction success event and precedes
\* every packet event and outputs_written; classify_risk appends nothing.
C16_Step ==
    /\ rpc = "classify" => audit' = audit
    /\ Cardinality(PositionsOf({"risk_classified"}))' <= 1
    /\ \A i \in PositionsOf({"risk_classified"})' :
          /\ audit'[i].by = "run"
          /\ pc' = "done"
          /\ audit'[i].info = decision'.risk_level
          /\ \E j \in PositionsOf(ExtractionSucceeded)' : j < i
          /\ \A k \in PositionsOf({"packet_generated", "packet_revised",
                                   "outputs_written"})' : i < k
    /\ (PositionsOf({"packet_generated", "packet_revised", "outputs_written"})' # {}
          \/ files' # {} \/ packet_calls' > 0) =>
          PositionsOf({"risk_classified"})' # {}
    /\ (rpc' \in {"finished", "crashed"} /\ PositionsOf(ExtractionSucceeded)' # {}) =>
          Cardinality(PositionsOf({"risk_classified"}))' = 1
    /\ rpc' = "finished" =>
          /\ PositionsOf(ExtractionSucceeded)' # {}
          /\ decision' = classify_risk(brief')

C16_OneRiskClassifiedEvent == [][C16_Step]_vars

C16_Witness ==
    /\ rpc = "finished"
    /\ entry = "cli"
    /\ decision.risk_level = "high"
    /\ PositionsOf({"extraction_repaired"}) = {3}
    /\ PositionsOf({"risk_classified"}) = {4}
    /\ audit[4].info = "high"
    /\ PositionsOf({"packet_revised"}) = {5}
    /\ files # {}

Approval == <<"O", "K">>

\* C17: with the model, generate_packet revises whenever the critique
\* requests fixes: the draft is returned unrevised only when the critique
\* is the approval OK, and for every other critique exactly one revision
\* call is made and the revised text is returned.
C17_RevisesUnlessApproved ==
    (rpc = "packet_returned" /\ entry # "cli_demo") =>
        IF critique = Approval
        THEN packet = draft /\ packet_calls = 2
        ELSE packet.origin = "revision" /\ packet_calls = 3

===========================================================================
